---- MODULE Spec2Model ----
(***************************************************************************)
(* Model of the synchronous A2S client: request_sync / request_sync_impl   *)
(* (the challenge-retry driver) and A2SStream (the UDP transport with      *)
(* multi-packet reassembly), src/a2s/a2s_sync.py.                          *)
(*                                                                         *)
(* One logical call is modelled.  Byte strings are sequences of integers   *)
(* in 0..255.  The remote server and the network are the environment: each *)
(* socket receive either times out or delivers one datagram drawn from     *)
(* Datagrams.  time.monotonic() is an environment reading that never       *)
(* decreases.                                                              *)
(***************************************************************************)
EXTENDS Integers, Sequences, FiniteSets, TLC

(* ------------------------------ bounds -------------------------------- *)
\* largest fragment id the server puts in a multi-packet datagram
MaxFragId == 1
\* largest fragment count the server declares in a multi-packet datagram
MaxFragCount == 2
\* largest reading of the monotonic clock
MaxClock == 1

(* --------------------------- program constants ------------------------ *)
HEADER_SIMPLE == <<255, 255, 255, 255>>
HEADER_MULTI == <<254, 255, 255, 255>>
A2S_CHALLENGE_RESPONSE == 65
DEFAULT_RETRIES == 5
\* size of the fixed fragment header read by decode_fragment
FRAGMENT_HEADER_SIZE == 2

PROTOCOLS == {"InfoProtocol", "PlayersProtocol", "RulesProtocol"}

(* ----------------------------- byte strings --------------------------- *)
\* packet[:n]
Take(s, n) == SubSeq(s, 1, IF n < Len(s) THEN n ELSE Len(s))
\* packet[n:]
Drop(s, n) == SubSeq(s, n + 1, Len(s))
\* bytes.startswith
StartsWith(s, p) == Len(s) >= Len(p) /\ SubSeq(s, 1, Len(p)) = p

\* variant: the header slice is one byte short
PacketHeader_short(packet) == Take(packet, 3)

\* header = packet[:4]
PacketHeader(packet) == Take(packet, 4)

\* variant: the single-packet path also drops a second leading marker
PacketData_stripped(packet) ==
    IF StartsWith(Drop(packet, 4), <<255, 255, 255, 255>>)
    THEN Drop(packet, 8) ELSE Drop(packet, 4)

\* data = packet[4:]
PacketData(packet) == Drop(packet, 4)

\* packet = HEADER_SIMPLE + data
FramePacket(data) == HEADER_SIMPLE \o data

\* int.to_bytes(4, "little")
ToBytesLE32(n) ==
    << n % 256, (n \div 256) % 256, (n \div 65536) % 256, (n \div 16777216) % 256 >>

\* hex(n): the hexadecimal digits of n, most significant first, no padding
RECURSIVE Hex(_)
Hex(n) == IF n < 16 THEN <<n>> ELSE Append(Hex(n \div 16), n % 16)

(* ------------------------------ ByteReader ---------------------------- *)
\* ByteReader.read_uint8 on the remaining buffer buf
read_uint8(buf) ==
    IF Len(buf) < 1
    THEN [ok |-> FALSE, value |-> 0, rest |-> buf]
    ELSE [ok |-> TRUE, value |-> buf[1], rest |-> Drop(buf, 1)]

\* ByteReader.read_uint32 (little-endian) on the remaining buffer buf
read_uint32(buf) ==
    IF Len(buf) < 4
    THEN [ok |-> FALSE, value |-> 0, rest |-> buf]
    ELSE [ok |-> TRUE,
          value |-> buf[1] + 256 * buf[2] + 65536 * buf[3] + 16777216 * buf[4],
          rest |-> Drop(buf, 4)]

(* --------------------------- protocol kinds --------------------------- *)
RequestTag(proto) ==
    CASE proto = "InfoProtocol" -> 84
      [] proto = "PlayersProtocol" -> 85
      [] proto = "RulesProtocol" -> 86

\* a2s_proto.serialize_request(challenge)
serialize_request(proto, ch) == <<RequestTag(proto)>> \o ToBytesLE32(ch)

\* a2s_proto.validate_response_type(response_type)
validate_response_type(proto, t) ==
    CASE proto = "InfoProtocol" -> t \in {73, 109}
      [] proto = "PlayersProtocol" -> t = 68
      [] proto = "RulesProtocol" -> t = 69

(* --------------------------- request driver --------------------------- *)
\* variant: the challenge tag is not recognised
IsChallengeTag_never(t) == FALSE

\* if response_type == A2S_CHALLENGE_RESPONSE
IsChallengeTag(t) == t = A2S_CHALLENGE_RESPONSE

\* variant: the retry counter is never checked
RetriesExhausted_never(r) == FALSE

\* variant: the bound is compared with > instead of >=
RetriesExhausted_late(r) == r > DEFAULT_RETRIES

\* if retries >= DEFAULT_RETRIES: raise
RetriesExhausted(r) == r >= DEFAULT_RETRIES

\* variant: the challenge of the response is read but the retry keeps challenge 0
ReadChallenge_dropped(rest) == [read_uint32(rest) EXCEPT !.value = 0]

\* challenge = reader.read_uint32()
ReadChallenge(rest) == read_uint32(rest)

\* variant: every attempt overwrites ping
ComputePing_always(r, p, recv_time, sent_at) == <<recv_time - sent_at>>

\* if retries == 0: ping = recv_time - send_time
ComputePing(r, p, recv_time, sent_at) ==
    IF r = 0 THEN <<recv_time - sent_at>> ELSE p

\* variant: the validator's answer is ignored
InvalidResponseType_never(proto, t) == FALSE

\* if not a2s_proto.validate_response_type(response_type): raise
InvalidResponseType(proto, t) == ~validate_response_type(proto, t)

(* ------------------------------ outcomes ------------------------------ *)
NoOutcome == [tag |-> "none", msg |-> "", value |-> <<>>, ping |-> <<>>, receives |-> 0]

\* an exception leaving the call: its class, message and formatted argument;
\* receives is the number of socket receives the failing attempt had issued
Error(tag, msg, value, n) ==
    [tag |-> tag, msg |-> msg, value |-> value, ping |-> <<>>, receives |-> n]

\* variant: the exhausted challenge loop raises an error class of its own
ChallengeLoopError_own(n) ==
    Error("ChallengeLoopError", "Server keeps sending challenge responses", <<>>, n)

\* raise BrokenMessageError("Server keeps sending challenge responses")
ChallengeLoopError(n) ==
    Error("BrokenMessageError", "Server keeps sending challenge responses", <<>>, n)

\* raise BrokenMessageError("Invalid response type: " + hex(response_type))
InvalidTypeError(t, n) ==
    Error("BrokenMessageError", "Invalid response type: 0x", Hex(t), n)

\* raise BrokenMessageError("Invalid packet header: " + repr(header))
InvalidHeaderError(header) ==
    Error("BrokenMessageError", "Invalid packet header", header, 1)

\* a2s_proto.deserialize_response(reader, response_type, ping)
deserialize_response(proto, rest, t, p) ==
    [tag |-> "result", msg |-> proto, value |-> <<t>> \o rest, ping |-> p, receives |-> 0]

(* --------------------------- fragment decoder ------------------------- *)
\* a2s_fragment.decode_fragment(data)
decode_fragment(data) ==
    IF Len(data) < FRAGMENT_HEADER_SIZE
    THEN [ok |-> FALSE, fragment_id |-> 0, fragment_count |-> 0, payload |-> <<>>]
    ELSE [ok |-> TRUE, fragment_id |-> data[1], fragment_count |-> data[2],
          payload |-> Drop(data, FRAGMENT_HEADER_SIZE)]

\* insert f behind every element whose key is <= f's (keeps the sort stable)
RECURSIVE InsertByFragmentId(_, _)
InsertByFragmentId(f, s) ==
    IF s = <<>> THEN <<f>>
    ELSE IF s[Len(s)].fragment_id <= f.fragment_id THEN Append(s, f)
    ELSE Append(InsertByFragmentId(f, SubSeq(s, 1, Len(s) - 1)), s[Len(s)])

\* variant: the fragments are joined in arrival order
SortByFragmentId_none(fs) == fs

\* fragments.sort(key=lambda f: f.fragment_id)
RECURSIVE SortByFragmentId(_)
SortByFragmentId(fs) ==
    IF fs = <<>> THEN <<>>
    ELSE InsertByFragmentId(fs[Len(fs)], SortByFragmentId(SubSeq(fs, 1, Len(fs) - 1)))

\* b"".join(fragment.payload for fragment in fragments)
RECURSIVE JoinPayloads(_)
JoinPayloads(fs) ==
    IF fs = <<>> THEN <<>> ELSE fs[1].payload \o JoinPayloads(Drop(fs, 1))

\* variant: every leading marker is dropped, not only the first
RECURSIVE StripAdditionalHeader_all(_)
StripAdditionalHeader_all(reassembled) ==
    IF StartsWith(reassembled, HEADER_SIMPLE)
    THEN StripAdditionalHeader_all(Drop(reassembled, 4)) ELSE reassembled

\* if reassembled.startswith(b"\xFF\xFF\xFF\xFF"): reassembled = reassembled[4:]
StripAdditionalHeader(reassembled) ==
    IF StartsWith(reassembled, HEADER_SIMPLE) THEN Drop(reassembled, 4) ELSE reassembled

\* variant: the loop counts distinct fragment ids, not fragments
MoreFragmentsNeeded_distinct(fs) ==
    Cardinality({ fs[i].fragment_id : i \in 1..Len(fs) }) < fs[1].fragment_count

\* variant: the count is read from the fragment received last
MoreFragmentsNeeded_last(fs) == Len(fs) < fs[Len(fs)].fragment_count

\* variant: the loop stops one fragment early
MoreFragmentsNeeded_short(fs) == Len(fs) + 1 < fs[1].fragment_count

\* the loop condition of A2SStream.recv: len(fragments) < fragments[0].fragment_count
MoreFragmentsNeeded(fs) == Len(fs) < fs[1].fragment_count

(* ----------------------------- environment ---------------------------- *)
\* challenge values a server hands out
Challenges == {305419896, 1}

ValidBody == <<73, 7>>

\* bodies of single-packet responses
SimpleBodies ==
    { <<>>, <<0>>, ValidBody, <<68, 7>>, <<69, 7>>, <<65, 1>>, HEADER_SIMPLE \o ValidBody }
    \cup { <<A2S_CHALLENGE_RESPONSE>> \o ToBytesLE32(c) : c \in Challenges }

\* payloads of fragments: a marker, a response body, a challenge response
FragmentPayloads == { HEADER_SIMPLE, ValidBody, <<65, 1, 0, 0, 0>> }

MultiBodies ==
    { <<i, n>> \o p : i \in 0..MaxFragId, n \in 0..MaxFragCount, p \in FragmentPayloads }
    \cup { <<0>> }

\* every datagram the network can deliver to the socket
Datagrams ==
    { HEADER_SIMPLE \o b : b \in SimpleBodies }
    \cup { HEADER_MULTI \o b : b \in MultiBodies }
    \cup { <<253, 255, 255, 255>> \o ValidBody, <<255, 255>> }

\* the datagrams of a server that varies the framing but not the fragment payload
FramingDatagrams ==
    { HEADER_SIMPLE \o b : b \in SimpleBodies }
    \cup { HEADER_MULTI \o <<i, n>> \o ValidBody : i \in 0..MaxFragId, n \in 0..MaxFragCount }
    \cup { HEADER_MULTI \o <<0>>, <<253, 255, 255, 255>> \o ValidBody, <<255, 255>> }

\* the datagrams of a server that splits one response, declaring up to
\* MaxFragCount + 1 fragments
CountDatagrams ==
    { HEADER_MULTI \o <<i, n>> \o ValidBody : i \in 0..MaxFragId, n \in 0..(MaxFragCount + 1) }
    \cup { HEADER_SIMPLE \o ValidBody }

\* the datagrams of the servers two calls running side by side talk to
PairDatagrams ==
    { HEADER_SIMPLE \o ValidBody,
      HEADER_SIMPLE \o <<A2S_CHALLENGE_RESPONSE>> \o ToBytesLE32(1),
      HEADER_MULTI \o <<1, 2>> \o <<7>>,
      HEADER_MULTI \o <<0, 2>> \o <<68>>,
      <<253, 255, 255, 255>> \o ValidBody }

\* what a server of the given kind can make the socket receive
DatagramsOf(kind) ==
    CASE kind = "any" -> Datagrams
      [] kind = "framing" -> FramingDatagrams
      [] kind = "counts" -> CountDatagrams
      [] kind = "pair" -> PairDatagrams

(* -------------------------------- state ------------------------------- *)
VARIABLES
    server,        \* the kind of remote server: any, framing
    pc,            \* where the call is: new, send, recv, recv_more, parse, close, returned, raised
    a2s_proto,     \* the protocol kind of the call
    socket_state,  \* conn._socket: none, open, closed
    close_calls,   \* how many times socket.close() has been executed
    discarded,     \* conn has been finalised (__del__ ran)
    challenge,     \* request_sync_impl argument
    retries,       \* request_sync_impl argument
    ping,          \* request_sync_impl argument: <<>> is None, <<p>> a value
    clock,         \* the last reading of time.monotonic()
    send_time,     \* request_sync_impl local
    sent,          \* datagrams handed to sendto so far
    packet_out,    \* the last datagram handed to sendto
    rx,            \* datagrams the socket delivered to the current recv(), in arrival order;
                   \* after a failed first receive, the datagram that made it fail
    fragments,     \* A2SStream.recv local
    resp_data,     \* the buffer recv() returned
    outcome,       \* what request_sync_impl returned or raised
    timed_out,     \* a socket receive of this call has timed out
    calls,         \* two calls of request_sync running side by side: each one's
                   \* conn, arguments and locals
    log            \* per socket: what its receives have yielded so far, in order

vars == << calls, log, server, pc, a2s_proto, socket_state, close_calls, discarded, challenge, retries,
           ping, clock, send_time, sent, packet_out, rx, fragments, resp_data, outcome,
           timed_out >>

\* the state of a call that has not started, whatever the server
NotStarted ==
    /\ pc = "new"
    /\ a2s_proto \in PROTOCOLS
    /\ socket_state = "none"
    /\ close_calls = 0
    /\ discarded = FALSE
    /\ challenge = 0
    /\ retries = 0
    /\ ping = <<>>
    /\ clock = 0
    /\ send_time = 0
    /\ sent = 0
    /\ packet_out = <<>>
    /\ rx = <<>>
    /\ fragments = <<>>
    /\ resp_data = <<>>
    /\ outcome = NoOutcome
    /\ timed_out = FALSE

\* no second call runs beside the one under study
Single == calls = <<>> /\ log = <<>>

Init == server = "any" /\ NotStarted /\ Single

LiveInit == server = "framing" /\ NotStarted /\ Single

CountInit == server = "counts" /\ NotStarted /\ Single

(* ------------------------------- actions ------------------------------ *)
\* request_sync: conn = A2SStream(address, timeout), then request_sync_impl(conn, ...)
\* is entered with challenge = 0, retries = 0, ping = None
A2SStream_init ==
    /\ pc = "new"
    /\ socket_state' = "open"
    /\ challenge' = 0
    /\ retries' = 0
    /\ ping' = <<>>
    /\ pc' = "send"
    /\ UNCHANGED << calls, log, server, a2s_proto, close_calls, discarded, clock, send_time, sent,
                    packet_out, rx, fragments, resp_data, outcome, timed_out >>

\* request_sync_impl: send_time = time.monotonic(); conn.request(...) -> conn.send(payload)
A2SStream_send ==
    /\ pc = "send"
    /\ \E t \in clock..MaxClock :
          /\ send_time' = t
          /\ clock' = t
    /\ packet_out' = FramePacket(serialize_request(a2s_proto, challenge))
    /\ sent' = sent + 1
    /\ rx' = <<>>
    /\ fragments' = <<>>
    /\ resp_data' = <<>>
    /\ pc' = "recv"
    /\ UNCHANGED << calls, log, server, a2s_proto, socket_state, close_calls, discarded, challenge,
                    retries, ping, outcome, timed_out >>

\* the exception exc leaves recv(), request_sync_impl and request_sync; received is
\* what is kept of the datagrams delivered to the failing recv()
RaiseWith(exc, received) ==
    /\ pc' = "raised"
    /\ outcome' = exc
    /\ rx' = received
    /\ fragments' = <<>>
    /\ resp_data' = <<>>

Raise(exc) == RaiseWith(exc, <<>>)

\* the while loop of recv() is over: sort, join, strip, return
FinishReassembly(fs) ==
    /\ fragments' = SortByFragmentId(fs)
    /\ resp_data' = StripAdditionalHeader(JoinPayloads(SortByFragmentId(fs)))
    /\ pc' = "parse"
    /\ outcome' = outcome

\* A2SStream.recv: packet = self._socket.recv(65535) delivers a datagram
A2SStream_recv ==
    /\ pc = "recv"
    /\ \E packet \in DatagramsOf(server) :
         LET header == PacketHeader(packet)
             data == PacketData(packet)
             frag == decode_fragment(data)
         IN
         IF header = HEADER_SIMPLE THEN
             /\ rx' = <<packet>>
             /\ resp_data' = data
             /\ fragments' = <<>>
             /\ pc' = "parse"
             /\ outcome' = outcome
         ELSE IF header = HEADER_MULTI THEN
             IF ~frag.ok THEN
                 RaiseWith(Error("BrokenMessageError", "Invalid fragment", data, 1),
                           <<packet>>)
             ELSE
                 /\ rx' = <<packet>>
                 /\ IF MoreFragmentsNeeded(<<frag>>)
                    THEN /\ fragments' = <<frag>>
                         /\ resp_data' = <<>>
                         /\ pc' = "recv_more"
                         /\ outcome' = outcome
                    ELSE FinishReassembly(<<frag>>)
         ELSE
             RaiseWith(InvalidHeaderError(header), <<packet>>)
    /\ UNCHANGED << calls, log, server, a2s_proto, socket_state, close_calls, discarded, challenge,
                    retries, ping, clock, send_time, sent, packet_out, timed_out >>

\* variant: the loop body rejects a datagram that lacks the multi-packet marker
A2SStream_recv_more_checked ==
    /\ pc = "recv_more"
    /\ \E packet \in DatagramsOf(server) :
         LET frag == decode_fragment(Drop(packet, 4))
             fs == Append(fragments, frag)
         IN
         IF PacketHeader(packet) # HEADER_MULTI THEN
             RaiseWith(InvalidHeaderError(PacketHeader(packet)), <<packet>>)
         ELSE IF ~frag.ok THEN
             Raise(Error("BrokenMessageError", "Invalid fragment", Drop(packet, 4),
                         Len(rx) + 1))
         ELSE
             /\ rx' = Append(rx, packet)
             /\ IF MoreFragmentsNeeded(fs)
                THEN /\ fragments' = fs
                     /\ resp_data' = <<>>
                     /\ pc' = "recv_more"
                     /\ outcome' = outcome
                ELSE FinishReassembly(fs)
    /\ UNCHANGED << calls, log, server, a2s_proto, socket_state, close_calls, discarded, challenge,
                    retries, ping, clock, send_time, sent, packet_out, timed_out >>

\* A2SStream.recv, loop body: packet = self._socket.recv(4096) delivers a datagram
A2SStream_recv_more ==
    /\ pc = "recv_more"
    /\ \E packet \in DatagramsOf(server) :
         LET frag == decode_fragment(Drop(packet, 4))
             fs == Append(fragments, frag)
         IN
         IF ~frag.ok THEN
             Raise(Error("BrokenMessageError", "Invalid fragment", Drop(packet, 4),
                         Len(rx) + 1))
         ELSE
             /\ rx' = Append(rx, packet)
             /\ IF MoreFragmentsNeeded(fs)
                THEN /\ fragments' = fs
                     /\ resp_data' = <<>>
                     /\ pc' = "recv_more"
                     /\ outcome' = outcome
                ELSE FinishReassembly(fs)
    /\ UNCHANGED << calls, log, server, a2s_proto, socket_state, close_calls, discarded, challenge,
                    retries, ping, clock, send_time, sent, packet_out, timed_out >>

\* variant: a timed-out receive makes the driver send the request again
SocketTimeout_retry ==
    /\ pc \in {"recv", "recv_more"}
    /\ timed_out' = TRUE
    /\ pc' = "send"
    /\ UNCHANGED << calls, log, server, a2s_proto, socket_state, close_calls, discarded, challenge,
                    retries, ping, clock, send_time, sent, packet_out, rx, fragments,
                    resp_data, outcome >>

\* self._socket.recv raises socket.timeout, in the first receive or in the loop
SocketTimeout ==
    /\ pc \in {"recv", "recv_more"}
    /\ timed_out' = TRUE
    /\ Raise(Error("Timeout", "timed out", <<>>, Len(rx) + 1))
    /\ UNCHANGED << calls, log, server, a2s_proto, socket_state, close_calls, discarded, challenge,
                    retries, ping, clock, send_time, sent, packet_out >>

\* request_sync_impl after conn.request returned: lines 123-146
HandleResponse ==
    /\ pc = "parse"
    /\ \E recv_time \in clock..MaxClock :
         LET new_ping == ComputePing(retries, ping, recv_time, send_time)
             t == read_uint8(resp_data)
             c == ReadChallenge(t.rest)
         IN
         /\ clock' = recv_time
         /\ ping' = new_ping
         /\ IF ~t.ok THEN
                /\ Raise(Error("BufferExhaustedError", "", <<>>, Len(rx)))
                /\ UNCHANGED << challenge, retries >>
            ELSE IF IsChallengeTag(t.value) THEN
                IF RetriesExhausted(retries) THEN
                    /\ Raise(ChallengeLoopError(Len(rx)))
                    /\ UNCHANGED << challenge, retries >>
                ELSE IF ~c.ok THEN
                    /\ Raise(Error("BufferExhaustedError", "", <<>>, Len(rx)))
                    /\ UNCHANGED << challenge, retries >>
                ELSE
                    /\ challenge' = c.value
                    /\ retries' = retries + 1
                    /\ pc' = "send"
                    /\ rx' = <<>>
                    /\ fragments' = <<>>
                    /\ resp_data' = <<>>
                    /\ outcome' = outcome
            ELSE IF InvalidResponseType(a2s_proto, t.value) THEN
                /\ Raise(InvalidTypeError(t.value, Len(rx)))
                /\ UNCHANGED << challenge, retries >>
            ELSE
                /\ outcome' = deserialize_response(a2s_proto, t.rest, t.value, new_ping)
                /\ pc' = "close"
                /\ rx' = <<>>
                /\ fragments' = <<>>
                /\ resp_data' = <<>>
                /\ UNCHANGED << challenge, retries >>
    /\ UNCHANGED << calls, log, server, a2s_proto, socket_state, close_calls, discarded, send_time,
                    sent, packet_out, timed_out >>

\* variant: request_sync returns without calling conn.close()
A2SStream_close_missing ==
    /\ pc = "close"
    /\ pc' = "returned"
    /\ UNCHANGED << calls, log, server, a2s_proto, socket_state, close_calls, discarded, challenge, retries,
                    ping, clock, send_time, sent, packet_out, rx, fragments, resp_data,
                    outcome, timed_out >>

\* request_sync: conn.close(); return response
A2SStream_close ==
    /\ pc = "close"
    /\ socket_state' = "closed"
    /\ close_calls' = close_calls + 1
    /\ pc' = "returned"
    /\ UNCHANGED << calls, log, server, a2s_proto, discarded, challenge, retries, ping, clock, send_time,
                    sent, packet_out, rx, fragments, resp_data, outcome, timed_out >>

\* variant: finalising conn does not close its socket
A2SStream_del_noclose ==
    /\ pc \in {"returned", "raised"}
    /\ ~discarded
    /\ discarded' = TRUE
    /\ UNCHANGED << calls, log, server, pc, a2s_proto, socket_state, close_calls, challenge, retries, ping,
                    clock, send_time, sent, packet_out, rx, fragments, resp_data, outcome,
                    timed_out >>

\* A2SStream.__del__: conn is finalised once the call has returned or raised
A2SStream_del ==
    /\ pc \in {"returned", "raised"}
    /\ ~discarded
    /\ discarded' = TRUE
    /\ socket_state' = "closed"
    /\ close_calls' = close_calls + 1
    /\ UNCHANGED << calls, log, server, pc, a2s_proto, challenge, retries, ping, clock, send_time,
                    sent, packet_out, rx, fragments, resp_data, outcome, timed_out >>

Next ==
    \/ A2SStream_init
    \/ A2SStream_send
    \/ A2SStream_recv
    \/ A2SStream_recv_more
    \/ SocketTimeout
    \/ HandleResponse
    \/ A2SStream_close
    \/ A2SStream_del

Spec == Init /\ [][Next]_vars

CountSpec == CountInit /\ [][Next]_vars

\* the call is one sequential thread that keeps running: a blocking receive ends
\* with a datagram or with the socket timeout, and conn is finalised once unreferenced
LiveSpec == LiveInit /\ [][Next]_vars /\ WF_vars(Next)

(* --------------------------- two calls at once ------------------------ *)
\* the calls running side by side
Calls == {1, 2}

\* variant: both calls use the socket of the first
SocketOf_shared(i) == 1

\* request_sync: conn = A2SStream(address, timeout), whose __init__ creates
\* self._socket = socket.socket(...): the socket call i receives from is its own
SocketOf(i) == i

\* the a2s_proto argument of call i
ProtocolOf(i) == IF i = 1 THEN "InfoProtocol" ELSE "PlayersProtocol"

\* what a socket receive yielded: a datagram, or the socket timeout
Delivered(packet) == [timeout |-> FALSE, packet |-> packet]
TimedOut == [timeout |-> TRUE, packet |-> <<>>]

\* call i before request_sync has created its conn
NewCall(i) ==
    [pc |-> "new", a2s_proto |-> ProtocolOf(i), sock |-> 0, challenge |-> 0, retries |-> 0,
     ping |-> <<>>, requests |-> <<>>, fragments |-> <<>>, outcome |-> NoOutcome]

PairInit ==
    /\ server = "pair"
    /\ NotStarted
    /\ a2s_proto = "InfoProtocol"
    /\ calls = [i \in Calls |-> NewCall(i)]
    /\ log = [s \in Calls |-> <<>>]

\* the variables of the single call, which the two calls leave alone
single_vars == << server, pc, a2s_proto, socket_state, close_calls, discarded, challenge,
                 retries, ping, clock, send_time, sent, packet_out, rx, fragments,
                 resp_data, outcome, timed_out >>

\* call c after the exception exc has left request_sync
Raised(c, exc) == [c EXCEPT !.pc = "raised", !.fragments = <<>>, !.outcome = exc]

\* request_sync_impl, lines 123-146, on the buffer conn.request returned after n
\* socket receives; elapsed is recv_time - send_time
Handled(c, buf, n, elapsed) ==
    LET c1 == [c EXCEPT !.fragments = <<>>,
                        !.ping = ComputePing(c.retries, c.ping, elapsed, 0)]
        t == read_uint8(buf)
        ch == ReadChallenge(t.rest)
    IN
    IF ~t.ok THEN Raised(c1, Error("BufferExhaustedError", "", <<>>, n))
    ELSE IF IsChallengeTag(t.value) THEN
        IF RetriesExhausted(c.retries) THEN Raised(c1, ChallengeLoopError(n))
        ELSE IF ~ch.ok THEN Raised(c1, Error("BufferExhaustedError", "", <<>>, n))
        ELSE [c1 EXCEPT !.pc = "send", !.challenge = ch.value, !.retries = c.retries + 1]
    ELSE IF InvalidResponseType(c.a2s_proto, t.value) THEN
        Raised(c1, InvalidTypeError(t.value, n))
    ELSE [c1 EXCEPT !.pc = "close",
                    !.outcome = deserialize_response(c.a2s_proto, t.rest, t.value, c1.ping)]

\* A2SStream.recv of call c once the socket has delivered packet, and what
\* request_sync_impl does with the buffer when recv returns one
Received(c, packet, elapsed) ==
    LET header == PacketHeader(packet)
        frag == decode_fragment(PacketData(packet))
        fs == Append(c.fragments, frag)
    IN
    IF c.pc = "recv" /\ header = HEADER_SIMPLE THEN
        Handled(c, PacketData(packet), 1, elapsed)
    ELSE IF c.pc = "recv" /\ header # HEADER_MULTI THEN
        Raised(c, InvalidHeaderError(header))
    ELSE IF ~frag.ok THEN
        Raised(c, Error("BrokenMessageError", "Invalid fragment", Drop(packet, 4), Len(fs)))
    ELSE IF MoreFragmentsNeeded(fs) THEN
        [c EXCEPT !.pc = "recv_more", !.fragments = fs]
    ELSE
        Handled(c, StripAdditionalHeader(JoinPayloads(SortByFragmentId(fs))), Len(fs), elapsed)

\* request_sync of call i: conn = A2SStream(address, timeout)
Call_init(i) ==
    /\ calls[i].pc = "new"
    /\ calls' = [calls EXCEPT ![i].pc = "send", ![i].sock = SocketOf(i)]
    /\ UNCHANGED << log, single_vars >>

\* conn.request of call i: conn.send(payload)
Call_send(i) ==
    /\ calls[i].pc = "send"
    /\ calls' = [calls EXCEPT
                   ![i].pc = "recv",
                   ![i].requests = Append(@, FramePacket(serialize_request(
                                       calls[i].a2s_proto, calls[i].challenge)))]
    /\ UNCHANGED << log, single_vars >>

\* conn.recv of call i: its socket delivers a datagram
Call_recv(i) ==
    /\ calls[i].pc \in {"recv", "recv_more"}
    /\ \E packet \in DatagramsOf(server), elapsed \in 0..MaxClock :
          /\ calls' = [calls EXCEPT ![i] = Received(calls[i], packet, elapsed)]
          /\ log' = [log EXCEPT ![calls[i].sock] = Append(@, Delivered(packet))]
    /\ UNCHANGED single_vars

\* conn.recv of call i: the receive on its socket times out
Call_timeout(i) ==
    /\ calls[i].pc \in {"recv", "recv_more"}
    /\ calls' = [calls EXCEPT ![i] = Raised(calls[i],
                     Error("Timeout", "timed out", <<>>, Len(calls[i].fragments) + 1))]
    /\ log' = [log EXCEPT ![calls[i].sock] = Append(@, TimedOut)]
    /\ UNCHANGED single_vars

\* request_sync of call i: conn.close(); return response
Call_close(i) ==
    /\ calls[i].pc = "close"
    /\ calls' = [calls EXCEPT ![i].pc = "returned"]
    /\ UNCHANGED << log, single_vars >>

PairNext ==
    \E i \in Calls :
        \/ Call_init(i)
        \/ Call_send(i)
        \/ Call_recv(i)
        \/ Call_timeout(i)
        \/ Call_close(i)

PairSpec == PairInit /\ [][PairNext]_vars

(* ------------------------- properties: helpers ----------------------- *)
\* buf is a complete challenge response: the tag and four bytes of challenge
IsChallengeResponse(buf) == Len(buf) >= 5 /\ buf[1] = 65

\* the challenge value whose little-endian encoding follows the tag in buf
CarriedChallenge(buf) == CHOOSE c \in Challenges : ToBytesLE32(c) = SubSeq(buf, 2, 5)

ChallengeLoopExceeded(o) ==
    o.tag = "BrokenMessageError" /\ o.msg = "Server keeps sending challenge responses"

\* the first four bytes of packet are h
HasHeader(packet, h) == Len(packet) >= 4 /\ SubSeq(packet, 1, 4) = h

\* the fields of a multi-packet datagram, read off its bytes
FragmentIdOf(packet) == packet[5]
FragmentCountOf(packet) == packet[6]
PayloadOf(packet) == SubSeq(packet, 7, Len(packet))

\* the current recv() received a multi-packet response
MultiResponse == rx # <<>> /\ HasHeader(rx[1], HEADER_MULTI)

\* r holds one fragment for each id 0..n-1, each declaring n fragments
IsCompleteSet(r) ==
    /\ r # <<>>
    /\ HasHeader(r[1], HEADER_MULTI)
    /\ \A i \in 1..Len(r) :
          /\ Len(r[i]) >= 6
          /\ FragmentCountOf(r[i]) = Len(r)
          /\ FragmentIdOf(r[i]) \in 0..(Len(r) - 1)
    /\ \A i, j \in 1..Len(r) : FragmentIdOf(r[i]) = FragmentIdOf(r[j]) => i = j

\* the payloads of the complete set r, from fragment id i upwards
RECURSIVE ConcatFromId(_, _)
ConcatFromId(r, i) ==
    IF i >= Len(r) THEN <<>>
    ELSE PayloadOf(r[CHOOSE k \in 1..Len(r) : FragmentIdOf(r[k]) = i]) \o ConcatFromId(r, i + 1)

\* the number the hexadecimal digits d spell
RECURSIVE FromHex(_)
FromHex(d) ==
    IF d = <<>> THEN 0 ELSE 16 * FromHex(SubSeq(d, 1, Len(d) - 1)) + d[Len(d)]

InvalidResponseTypeError(o) ==
    o.tag = "BrokenMessageError" /\ o.msg = "Invalid response type: 0x"

(* ------------------------------- claims ------------------------------- *)
\* C1: a challenge response carrying C makes the call send exactly one more
\* request, whose payload ends with the little-endian bytes of C; the number of
\* requests sent is always the number of challenge responses accepted plus one;
\* the challenge response to request number DEFAULT_RETRIES + 1 raises "Server
\* keeps sending challenge responses" and no request follows it.
C1_ChallengeRetry ==
    /\ [](pc \in {"recv", "recv_more", "parse"} => sent = retries + 1)
    /\ [](pc = "send" => sent = retries)
    /\ [](ChallengeLoopExceeded(outcome) => pc = "raised" /\ sent = DEFAULT_RETRIES + 1)
    /\ [][ (pc = "parse" /\ IsChallengeResponse(resp_data)) =>
             IF sent <= DEFAULT_RETRIES
             THEN /\ pc' = "send"
                  /\ sent' = sent
                  /\ challenge' = CarriedChallenge(resp_data)
             ELSE /\ pc' = "raised"
                  /\ sent' = sent
                  /\ ChallengeLoopExceeded(outcome') ]_vars
    /\ [][ pc = "send" =>
             /\ sent' = sent + 1
             /\ pc' = "recv"
             /\ packet_out' = HEADER_SIMPLE \o <<RequestTag(a2s_proto)>>
                                  \o ToBytesLE32(challenge) ]_vars

\* the call failed on the challenge response to its last permitted request
C1_Witness ==
    /\ ChallengeLoopExceeded(outcome)
    /\ sent = DEFAULT_RETRIES + 1
    /\ packet_out = HEADER_SIMPLE \o <<RequestTag(a2s_proto)>> \o ToBytesLE32(305419896)

\* C2: one call sends at most DEFAULT_RETRIES + 1 datagrams and its retry counter
\* never exceeds DEFAULT_RETRIES; a response starting with the challenge tag that
\* arrives when the counter is at the bound ends the call with an error: it
\* neither returns a result nor sends again.
C2_RetryBound ==
    /\ [](sent <= DEFAULT_RETRIES + 1 /\ retries <= DEFAULT_RETRIES)
    /\ [][ (pc = "parse" /\ Len(resp_data) >= 1 /\ resp_data[1] = 65
                /\ retries >= DEFAULT_RETRIES) =>
             /\ pc' = "raised"
             /\ outcome'.tag \in {"BrokenMessageError"}
             /\ retries' = retries
             /\ sent' = sent ]_vars

\* a challenge response has arrived with the retry counter at the bound
C2_Witness ==
    /\ pc = "parse"
    /\ retries = DEFAULT_RETRIES
    /\ Len(resp_data) >= 1 /\ resp_data[1] = 65

\* C3 as stated: whenever recv has yielded the buffer of a multi-packet response,
\* it has collected exactly the fragment_count declared by the first fragment.
C3_Original ==
    (pc = "parse" /\ MultiResponse) => Len(rx) = FragmentCountOf(rx[1])

\* C3: whenever recv has yielded the buffer of a multi-packet response it has
\* collected exactly fragment_count fragments when the first fragment declares
\* 1 or more, and exactly the one fragment already received when it declares 0;
\* while fewer are collected no buffer exists, and after a receive timed out
\* recv has yielded no buffer.
C3_Reassembly ==
    /\ (pc = "parse" /\ MultiResponse) =>
          /\ Len(fragments) = Len(rx)
          /\ Len(rx) = (IF FragmentCountOf(rx[1]) >= 1 THEN FragmentCountOf(rx[1]) ELSE 1)
    /\ pc = "recv_more" =>
          /\ MultiResponse
          /\ Len(rx) < FragmentCountOf(rx[1])
          /\ resp_data = <<>>
    /\ timed_out => (pc = "raised" /\ resp_data = <<>> /\ outcome.tag = "Timeout")

\* recv yielded a buffer after collecting two or more fragments, as declared
C3_Witness ==
    /\ pc = "parse"
    /\ MultiResponse
    /\ Len(rx) >= 2
    /\ Len(rx) = FragmentCountOf(rx[1])

\* C4: when the fragments received carry the ids 0..n-1 once each and declare n
\* fragments, the joined buffer is payload(0) \o ... \o payload(n-1) whatever the
\* order of arrival, and recv returns it, less the optional leading marker.
C4_OrderIndependent ==
    (pc = "parse" /\ IsCompleteSet(rx)) =>
        /\ JoinPayloads(fragments) = ConcatFromId(rx, 0)
        /\ resp_data \in { ConcatFromId(rx, 0), Drop(ConcatFromId(rx, 0), 4) }

\* a complete set arrived with the higher id first and different payloads
C4_Witness ==
    /\ pc = "parse"
    /\ IsCompleteSet(rx)
    /\ Len(rx) >= 2
    /\ FragmentIdOf(rx[1]) > FragmentIdOf(rx[2])
    /\ PayloadOf(rx[1]) # PayloadOf(rx[2])

\* C5: a datagram starting with the simple marker ends recv after that one socket
\* receive and the buffer returned is the datagram without its first 4 bytes, a
\* second marker included; such a datagram never starts a reassembly and is never
\* reported as an invalid header.
C5_SinglePacket ==
    /\ (pc = "parse" /\ rx # <<>> /\ HasHeader(rx[1], HEADER_SIMPLE)) =>
          /\ Len(rx) = 1
          /\ rx[1] = <<255, 255, 255, 255>> \o resp_data
    /\ pc = "recv_more" => ~HasHeader(rx[1], HEADER_SIMPLE)
    /\ outcome.msg = "Invalid packet header" =>
          outcome.value \notin {HEADER_SIMPLE, HEADER_MULTI}

\* a single packet whose body starts with a second marker was returned whole
C5_Witness ==
    /\ pc = "parse"
    /\ rx = << HEADER_SIMPLE \o HEADER_SIMPLE \o ValidBody >>
    /\ resp_data = HEADER_SIMPLE \o ValidBody

\* C6: the buffer recv returns for a multi-packet response is the joined payloads
\* without their first 4 bytes when those are FF FF FF FF (a second marker behind
\* them stays), and the joined payloads themselves otherwise.
C6_StripOnce ==
    (pc = "parse" /\ MultiResponse) =>
        LET joined == JoinPayloads(fragments) IN
        IF Len(joined) >= 4 /\ \A i \in 1..4 : joined[i] = 255
        THEN resp_data = SubSeq(joined, 5, Len(joined))
        ELSE resp_data = joined

\* the joined payloads started with two markers and the second one was kept
C6_Witness ==
    /\ pc = "parse"
    /\ MultiResponse
    /\ JoinPayloads(fragments) = HEADER_SIMPLE \o HEADER_SIMPLE
    /\ resp_data = HEADER_SIMPLE

\* C7: the first response of a call sets ping to recv_time - send_time of that
\* attempt; once set, ping never changes, and the ping handed to the deserializer
\* is that value.
C7_PingOnce ==
    /\ [][ (pc = "parse" /\ retries = 0) => ping' = <<clock' - send_time>> ]_vars
    /\ [][ ping # <<>> => ping' = ping ]_vars
    /\ [](retries >= 1 => ping # <<>>)
    /\ [](outcome.tag = "result" => (ping # <<>> /\ outcome.ping = ping))

\* a result was returned after a retry whose round trip differed from the first
C7_Witness ==
    /\ outcome.tag = "result"
    /\ retries >= 1
    /\ outcome.ping # <<clock - send_time>>

\* C8: a response whose first byte is neither 0x41 nor accepted by the validator
\* of the call's protocol kind ends the call with BrokenMessageError "Invalid
\* response type" whose hexadecimal argument spells that byte; nothing is
\* deserialized and nothing more is sent.
C8_InvalidResponseType ==
    /\ [][ (pc = "parse" /\ Len(resp_data) >= 1 /\ resp_data[1] # 65
                /\ ~validate_response_type(a2s_proto, resp_data[1])) =>
             /\ pc' = "raised"
             /\ InvalidResponseTypeError(outcome')
             /\ FromHex(outcome'.value) = resp_data[1]
             /\ sent' = sent ]_vars
    /\ [](InvalidResponseTypeError(outcome) => pc = "raised")
    /\ [][ pc = "raised" => (pc' = "raised" /\ sent' = sent /\ outcome' = outcome) ]_vars

\* after a challenge retry the byte 0xFF was rejected and reported as "ff"
C8_Witness ==
    /\ pc = "raised"
    /\ InvalidResponseTypeError(outcome)
    /\ outcome.value = <<15, 15>>
    /\ retries >= 1

\* C9: once a socket receive has timed out the call has ended with the Timeout
\* error, and from then on nothing is sent and nothing is received.
C9_TimeoutNoRetry ==
    /\ [](timed_out => (pc = "raised" /\ outcome.tag = "Timeout"))
    /\ [][ timed_out =>
             (sent' = sent /\ packet_out' = packet_out /\ rx' = rx /\ pc' = pc
                /\ outcome' = outcome) ]_vars

\* a continuation receive timed out in an attempt that followed a challenge retry
C9_Witness ==
    /\ timed_out
    /\ retries >= 1
    /\ outcome.receives >= 2

\* C10 as stated: over the lifetime of the Transport of a request_sync call the
\* close operation is executed exactly once.
C10_Original == discarded => close_calls = 1

\* C10: the socket goes from open to closed once and is never reopened; when the
\* Transport has been finalised the close operation has been executed twice if the
\* call returned (conn.close(), then __del__) and once if it raised (__del__).
C10_ClosedOnce ==
    /\ [][ socket_state = "closed" => socket_state' = "closed" ]_vars
    /\ [](discarded =>
            /\ socket_state = "closed"
            /\ close_calls = (IF pc = "returned" THEN 2 ELSE 1))
    /\ []((pc = "returned" /\ ~discarded) => (socket_state = "closed" /\ close_calls = 1))
    /\ []((pc = "raised" /\ ~discarded) => (socket_state = "open" /\ close_calls = 0))

\* the call returned a result and its Transport was finalised after conn.close()
C10_Witness ==
    /\ discarded
    /\ pc = "returned"
    /\ close_calls = 2

\* C11: once request_sync_impl has returned or raised, whatever the exit path, the
\* socket is eventually closed and stays closed; a close() that finds the socket
\* closed leaves it closed and changes nothing of the call's outcome.
C11_NeverLeaked ==
    /\ (outcome.tag # "none") ~> [](socket_state = "closed")
    /\ [][ (socket_state = "closed" /\ close_calls' = close_calls + 1) =>
             (socket_state' = "closed" /\ pc' = pc /\ outcome' = outcome) ]_vars
    /\ [](socket_state = "closed" => outcome.tag # "none")

\* the call failed on an invalid packet header and only __del__ closed the socket
C11_Witness ==
    /\ pc = "raised"
    /\ outcome.msg = "Invalid packet header"
    /\ discarded
    /\ socket_state = "closed"
    /\ close_calls = 1

\* the error kinds raised for an unrecognised framing header or response type
MalformedMessageKinds == {"BrokenMessageError"}

\* the call failed because the server kept answering with challenge responses
ChallengeLoopFailure(o) == o.msg = "Server keeps sending challenge responses"

\* C12 as stated: the error raised when the challenge loop is exhausted is of a
\* kind other than the malformed-message kind.
C12_Original == ChallengeLoopFailure(outcome) => outcome.tag \notin MalformedMessageKinds

\* C12: the error raised when the challenge loop is exhausted is a
\* BrokenMessageError, the kind also raised for an unrecognised framing header and
\* for an unaccepted response type; the three differ in their message only.
C12_SameKind ==
    /\ ChallengeLoopFailure(outcome) => outcome.tag = "BrokenMessageError"
    /\ outcome.msg \in {"Invalid packet header", "Invalid response type: 0x"} =>
          outcome.tag = "BrokenMessageError"
    /\ outcome.tag = "BrokenMessageError" =>
          outcome.msg \in {"Server keeps sending challenge responses",
                           "Invalid packet header", "Invalid response type: 0x",
                           "Invalid fragment"}

\* a Rules call failed on the challenge response to its last permitted request
C12_Witness ==
    /\ a2s_proto = "RulesProtocol"
    /\ pc = "raised"
    /\ ChallengeLoopFailure(outcome)
    /\ outcome.tag = "BrokenMessageError"
    /\ retries = DEFAULT_RETRIES

\* C14: a first datagram whose header is neither marker ends the call with
\* BrokenMessageError "Invalid packet header" carrying the header bytes; recv has
\* returned no buffer, that receive was its only one and the request sent before
\* it is the call's last.
C14_InvalidHeader ==
    (rx # <<>> /\ ~HasHeader(rx[1], HEADER_SIMPLE) /\ ~HasHeader(rx[1], HEADER_MULTI)) =>
        /\ pc = "raised"
        /\ Len(rx) = 1
        /\ outcome.tag = "BrokenMessageError"
        /\ outcome.msg = "Invalid packet header"
        /\ outcome.value = SubSeq(rx[1], 1, IF Len(rx[1]) < 4 THEN Len(rx[1]) ELSE 4)
        /\ outcome.receives = 1
        /\ resp_data = <<>>
        /\ sent = retries + 1

\* after a challenge retry a datagram starting FD FF FF FF was reported
C14_Witness ==
    /\ pc = "raised"
    /\ rx = << <<253, 255, 255, 255>> \o ValidBody >>
    /\ outcome.value = <<253, 255, 255, 255>>
    /\ retries >= 1

\* C16: no result is ever deserialized from a response of type 0x41 and the
\* validator is never the one to reject that type; handling such a response either
\* starts a retry or fails the call.
C16_ChallengeNeverReturned ==
    /\ [](outcome.tag = "result" => outcome.value[1] # 65)
    /\ [](InvalidResponseTypeError(outcome) => FromHex(outcome.value) # 65)
    /\ [][ (pc = "parse" /\ Len(resp_data) >= 1 /\ resp_data[1] = 65) =>
             \/ (pc' = "send" /\ retries' = retries + 1 /\ outcome' = outcome)
             \/ (pc' = "raised" /\ outcome'.tag \in {"BrokenMessageError",
                                                      "BufferExhaustedError"}) ]_vars

\* a truncated challenge response failed the call while retries were left
C16_Witness ==
    /\ pc = "raised"
    /\ outcome.tag = "BufferExhaustedError"
    /\ retries < DEFAULT_RETRIES
    /\ sent >= 2

\* C13: a request is sent only from the sending position, one at a time, and the
\* call comes back to that position only from a response whose recv has returned
\* (with every fragment the first one declared, for a multi-packet response) and
\* whose first byte is the challenge tag; datagrams are received only between a
\* send and the handling of its response, which at least one receive precedes.
C13_Sequential ==
    /\ [][ sent' # sent =>
             (pc = "send" /\ sent' = sent + 1 /\ pc' = "recv" /\ rx' = <<>>) ]_vars
    /\ [][ (pc' = "send" /\ pc # "send") =>
             \/ pc = "new"
             \/ /\ pc = "parse"
                /\ rx # <<>>
                /\ Len(resp_data) >= 1 /\ resp_data[1] = 65
                /\ MultiResponse => Len(rx) >= FragmentCountOf(rx[1]) ]_vars
    /\ [][ (rx' # rx /\ rx' # <<>>) =>
             (pc \in {"recv", "recv_more"} /\ Len(rx') = Len(rx) + 1 /\ sent' = sent) ]_vars
    /\ [](pc = "parse" => (Len(rx) >= 1 /\ sent = retries + 1))
    /\ [](pc \in {"recv", "recv_more"} => sent = retries + 1)

\* the second or a later attempt has fully received a challenge response that
\* came in two fragments
C13_Witness ==
    /\ pc = "parse"
    /\ retries >= 1
    /\ retries < DEFAULT_RETRIES
    /\ MultiResponse
    /\ Len(rx) = 2
    /\ Len(resp_data) >= 5 /\ resp_data[1] = 65

\* the call has reached Decoded (a result) or Failed (an exception)
Decoded == outcome.tag = "result" /\ pc \in {"close", "returned"}
Failed == outcome.tag \notin {"none", "result"} /\ pc = "raised"

\* C15: when every receive delivers a datagram or times out, the call reaches
\* Decoded or Failed, never both and nothing in between; it sends at most
\* DEFAULT_RETRIES + 1 requests on the way, and once there its outcome is final
\* and it neither sends nor receives.
C15_Terminates ==
    /\ <>(Decoded \/ Failed)
    /\ [](outcome.tag # "none" => (Decoded # Failed))
    /\ [](pc \in {"close", "returned", "raised"} => outcome.tag # "none")
    /\ [](sent <= DEFAULT_RETRIES + 1 /\ retries <= DEFAULT_RETRIES)
    /\ [][ outcome.tag # "none" =>
             (outcome' = outcome /\ sent' = sent /\ rx' = rx /\ retries' = retries) ]_vars

\* the call returned a result after using every permitted retry
C15_Witness ==
    /\ Decoded
    /\ pc = "returned"
    /\ retries = DEFAULT_RETRIES
    /\ sent = DEFAULT_RETRIES + 1

\* C17: the loop of recv runs until the number of fragments collected reaches the
\* fragment_count of the datagram received first, whatever that datagram's id and
\* whatever counts the later datagrams declare; the sort that follows keeps every
\* fragment, also when it puts a fragment with another count in front.
C17_FirstCountGoverns ==
    /\ pc = "recv_more" =>
          /\ fragments[1] = decode_fragment(Drop(rx[1], 4))
          /\ Len(rx) < FragmentCountOf(rx[1])
    /\ (pc = "parse" /\ MultiResponse) =>
          /\ Len(rx) = (IF FragmentCountOf(rx[1]) >= 1 THEN FragmentCountOf(rx[1]) ELSE 1)
          /\ Len(fragments) = Len(rx)
          /\ \A i \in 1..(Len(fragments) - 1) :
                fragments[i].fragment_id <= fragments[i + 1].fragment_id

\* three fragments were collected as the first one declared; it did not carry
\* id 0, a later one declared fewer, and the sort put another count in front
C17_Witness ==
    /\ pc = "parse"
    /\ MultiResponse
    /\ Len(rx) = 3
    /\ FragmentCountOf(rx[1]) = 3
    /\ FragmentIdOf(rx[1]) # 0
    /\ FragmentCountOf(rx[2]) < 3
    /\ fragments[1].fragment_count # 3

\* the place of the datagram r[i] when r is ordered by fragment id, equal ids
\* in order of arrival
RankOf(r, i) ==
    1 + Cardinality({ j \in 1..Len(r) :
                        \/ FragmentIdOf(r[j]) < FragmentIdOf(r[i])
                        \/ FragmentIdOf(r[j]) = FragmentIdOf(r[i]) /\ j < i })

\* the payloads of the datagrams of r with the ranks k, k+1, ...
RECURSIVE ConcatInOrder(_, _)
ConcatInOrder(r, k) ==
    IF k > Len(r) THEN <<>>
    ELSE PayloadOf(r[CHOOSE i \in 1..Len(r) : RankOf(r, i) = k]) \o ConcatInOrder(r, k + 1)

\* some fragment id occurs twice in r and some id below the declared count is absent
DuplicateAndMissing(r) ==
    /\ \E i, j \in 1..Len(r) : i # j /\ FragmentIdOf(r[i]) = FragmentIdOf(r[j])
    /\ \E m \in 0..(FragmentCountOf(r[1]) - 1) :
          \A i \in 1..Len(r) : FragmentIdOf(r[i]) # m

\* C18: reassembly ends as soon as the number of fragments collected reaches the
\* declared count and never goes on beyond it, whatever ids the fragments carry;
\* the buffer returned is then the payloads of all collected fragments in order
\* of id (equal ids in order of arrival), less the optional leading marker, and
\* no error has been raised, also when an id is duplicated and another missing.
C18_CountOnly ==
    /\ pc = "recv_more" => Len(rx) < FragmentCountOf(rx[1])
    /\ (pc = "parse" /\ MultiResponse) =>
          LET joined == ConcatInOrder(rx, 1) IN
          /\ Len(rx) >= FragmentCountOf(rx[1])
          /\ outcome.tag = "none"
          /\ JoinPayloads(fragments) = joined
          /\ resp_data = IF StartsWith(joined, HEADER_SIMPLE) THEN Drop(joined, 4) ELSE joined

\* two fragments with the same id and different payloads completed a response
\* that declares two fragments; the other id never arrived
C18_Witness ==
    /\ pc = "parse"
    /\ MultiResponse
    /\ Len(rx) = 2
    /\ FragmentCountOf(rx[1]) = 2
    /\ DuplicateAndMissing(rx)
    /\ PayloadOf(rx[1]) # PayloadOf(rx[2])
    /\ resp_data = PayloadOf(rx[1]) \o PayloadOf(rx[2])

\* C20: the header of a datagram received in the loop of recv is never looked at:
\* whatever its first four bytes, the datagram is decoded from its fifth byte on
\* and counts as a fragment; the only error the loop raises for a datagram is
\* "Invalid fragment", and "Invalid packet header" is raised only for the first
\* datagram of a recv, with the header of that datagram.
C20_ContinuationUnchecked ==
    /\ [][ (pc = "recv_more" /\ rx' # rx /\ rx' # <<>>) =>
             \E packet \in DatagramsOf(server) :
                /\ Len(packet) >= 4 + FRAGMENT_HEADER_SIZE
                /\ rx' = Append(rx, packet)
                /\ pc' \in {"recv_more", "parse"}
                /\ outcome' = outcome ]_vars
    /\ [][ (pc = "recv_more" /\ pc' = "raised") =>
             /\ outcome'.msg \in {"timed out", "Invalid fragment"}
             /\ outcome'.receives = Len(rx) + 1 ]_vars
    /\ [][ (pc = "recv_more" /\ pc' = "recv_more") =>
             /\ Len(fragments') = Len(fragments) + 1
             /\ fragments'[Len(fragments')] =
                    [ok |-> TRUE,
                     fragment_id |-> FragmentIdOf(rx'[Len(rx')]),
                     fragment_count |-> FragmentCountOf(rx'[Len(rx')]),
                     payload |-> PayloadOf(rx'[Len(rx')])] ]_vars
    /\ [](outcome.msg = "Invalid packet header" =>
             /\ pc = "raised"
             /\ outcome.receives = 1
             /\ Len(rx) = 1
             /\ outcome.value = SubSeq(rx[1], 1, IF Len(rx[1]) < 4 THEN Len(rx[1]) ELSE 4)
             /\ outcome.value \notin {HEADER_SIMPLE, HEADER_MULTI})
    /\ []((pc = "parse" /\ MultiResponse) => Len(fragments) = Len(rx))

\* a datagram starting with the simple marker completed a two-fragment response
C20_Witness ==
    /\ pc = "parse"
    /\ MultiResponse
    /\ Len(rx) = 2
    /\ Len(fragments) = 2
    /\ HasHeader(rx[2], HEADER_SIMPLE)
    /\ outcome.tag = "none"

\* what a call shows to its caller and to the network: the requests it has
\* sent, how many fragments it holds, and how it ended (tag "none": not yet)
Shown(requests, holding, tag, msg, value) ==
    [requests |-> requests, holding |-> holding, tag |-> tag, msg |-> msg, value |-> value]

\* the request a call for proto sends with the challenge value ch
RequestFor(proto, ch) == HEADER_SIMPLE \o <<RequestTag(proto)>> \o ToBytesLE32(ch)

\* a call for proto running alone that has sent reqs, holds the datagrams held
\* of an unfinished reassembly and now receives evs[k], evs[k+1], ...: what it
\* shows when evs is used up or the call has ended, whichever comes first
RECURSIVE AloneFrom(_, _, _, _, _)
AloneFrom(proto, evs, k, reqs, held) ==
    LET packet == evs[k].packet
        all == Append(held, packet)
        Ended(tag, msg, value) == Shown(reqs, 0, tag, msg, value)
        Respond(buf) ==
            IF buf = <<>> THEN Ended("BufferExhaustedError", "", <<>>)
            ELSE IF buf[1] = 65 THEN
                IF Len(reqs) > DEFAULT_RETRIES
                THEN Ended("BrokenMessageError", "Server keeps sending challenge responses",
                           <<>>)
                ELSE IF Len(buf) < 5 THEN Ended("BufferExhaustedError", "", <<>>)
                ELSE AloneFrom(proto, evs, k + 1,
                               Append(reqs, RequestFor(proto, CarriedChallenge(buf))), <<>>)
            ELSE IF ~validate_response_type(proto, buf[1])
                THEN Ended("BrokenMessageError", "Invalid response type: 0x", Hex(buf[1]))
            ELSE Ended("result", proto, buf)
        joined == ConcatInOrder(all, 1)
    IN
    IF k > Len(evs) THEN Shown(reqs, Len(held), "none", "", <<>>)
    ELSE IF evs[k].timeout THEN Ended("Timeout", "timed out", <<>>)
    ELSE IF held = <<>> /\ HasHeader(packet, HEADER_SIMPLE) THEN
        Respond(SubSeq(packet, 5, Len(packet)))
    ELSE IF held = <<>> /\ ~HasHeader(packet, HEADER_MULTI) THEN
        Ended("BrokenMessageError", "Invalid packet header", Take(packet, 4))
    ELSE IF Len(packet) < 4 + FRAGMENT_HEADER_SIZE THEN
        Ended("BrokenMessageError", "Invalid fragment", Drop(packet, 4))
    ELSE IF Len(all) < FragmentCountOf(all[1]) THEN
        AloneFrom(proto, evs, k + 1, reqs, all)
    ELSE
        Respond(IF StartsWith(joined, HEADER_SIMPLE) THEN Drop(joined, 4) ELSE joined)

\* what call i shows when it runs alone and its receives yield evs
Alone(i, evs) == AloneFrom(ProtocolOf(i), evs, 1, <<RequestFor(ProtocolOf(i), 0)>>, <<>>)

\* what call i shows in the current state
ShownBy(i) ==
    Shown(calls[i].requests, Len(calls[i].fragments), calls[i].outcome.tag,
          calls[i].outcome.msg, calls[i].outcome.value)

\* call i is blocked in a receive or has ended
Settled(i) == calls[i].pc \in {"recv", "recv_more", "close", "returned", "raised"}

\* C19: two calls of request_sync run interleaved, each on the socket its own
\* conn created. The two conns never hold the same socket, and whenever a call is
\* blocked in a receive or has ended, the requests it has sent (challenge values
\* included) and its result or error are those of the same call running alone
\* on what the receives of its own socket have yielded.
C19_NoInterference ==
    /\ \A i, j \in Calls :
          (i # j /\ calls[i].sock # 0) => calls[i].sock # calls[j].sock
    /\ \A i \in Calls : calls[i].pc = "new" => log[i] = <<>>
    /\ \A i \in Calls : Settled(i) => ShownBy(i) = Alone(i, log[i])

\* both calls have ended after a retry each, one with a result and one with an
\* error, having received different things
C19_Witness ==
    /\ calls[1].pc = "returned"
    /\ calls[2].pc = "raised"
    /\ calls[1].retries >= 1
    /\ calls[2].retries >= 1
    /\ Len(log[1]) >= 3
    /\ log[1] # log[2]

====
